---- MODULE Spec2Model ----
(***************************************************************************)
(* A model of timer.py: the unit formatter format_timing, the context      *)
(* manager Timer and the self-adjusting AutoTimer.auto.                    *)
(*                                                                         *)
(* Durations are Python floats in seconds.  They are modelled as exact     *)
(* rationals [num, den] in lowest terms, so the arithmetic of              *)
(* format_timing (timing * 1e6 / number_of_loops, usec / 1000) is computed *)
(* and not assumed; binary rounding of floats is not modelled.             *)
(* An attribute holding None is <<>>, an attribute holding x is <<x>>.     *)
(***************************************************************************)
EXTENDS Integers, Sequences, FiniteSets, TLC

VARIABLES
    \* --- process-wide collaborators
    gc,          \* gc.isenabled(): the collector's enabled flag
    clock,       \* the reading of timeit.default_timer, in microseconds
    \* --- Timer instances and the with-statements using them
    timers,      \* the attributes of each Timer instance
    stack,       \* the open with-blocks, innermost last
    regions,     \* history: one record per region entered
    exited,      \* history: the regions left, in the order of their exits
    sinkCalls,   \* the calls received by log_func
    stdout,      \* the lines printed by Timer.__exit__
    gcUsers,     \* history: the Timer instances that called the gc module
    \* --- one call of AutoTimer.auto
    pc,          \* "idle", "probe", "repeat", "report" or "done"
    repeat,      \* argument repeat
    verbose,     \* argument verbose
    i,           \* the loop variable of the probe loop
    number_of_loops,
    execution_time,
    r,           \* the list built by self.repeat
    ret,         \* the value returned by auto
    raised,      \* the exception leaving auto
    diag,        \* the number of print_exc() calls
    out,         \* the lines printed by auto
    probes,      \* history: the probe calls of self.timeit, <<number, result>>
    trials,      \* history: the number argument of each trial of self.repeat
    failure,     \* history: what the target raised
    \* --- one call of format_timing
    fmtIn,
    fmtOut

timerVars == <<gc, clock, timers, stack, regions, exited, sinkCalls, stdout, gcUsers>>
autoVars == <<pc, repeat, verbose, i, number_of_loops, execution_time, r, ret,
              raised, diag, out, probes, trials, failure>>
fmtVars == <<fmtIn, fmtOut>>
vars == <<timerVars, autoVars, fmtVars>>

-----------------------------------------------------------------------------
(* Bounds of the model *)

MaxRegions == 2
MaxRepeat == 3

-----------------------------------------------------------------------------
(* Float arithmetic, exact *)

RECURSIVE GCD(_, _)
GCD(a, b) == IF b = 0 THEN a ELSE GCD(b, a % b)

Rat(n, d) == LET g == GCD(n, d) IN [num |-> n \div g, den |-> d \div g]

RInt(n) == [num |-> n, den |-> 1]

RMul(a, b) ==
    LET g1 == GCD(a.num, b.den)
        g2 == GCD(b.num, a.den)
    IN  IF a.num = 0 \/ b.num = 0 THEN RInt(0)
        ELSE [num |-> (a.num \div g1) * (b.num \div g2),
              den |-> (a.den \div g2) * (b.den \div g1)]

RDiv(a, b) == RMul(a, [num |-> b.den, den |-> b.num])

RSub(a, b) ==
    LET g == GCD(a.den, b.den)
    IN  Rat(a.num * (b.den \div g) - b.num * (a.den \div g), (a.den \div g) * b.den)

RLess(a, b) == a.num * b.den < b.num * a.den

None == <<>>
Some(x) == <<x>>
Val(o) == o[1]

-----------------------------------------------------------------------------
(* format_timing(timing, number_of_loops=1) *)

format_timing_sec_per_loop(timing, loops) ==
    LET usec == RDiv(RMul(timing, RInt(1000000)), RInt(loops))
    IN  IF RLess(usec, RInt(1000)) THEN <<usec, "usec">>
        ELSE LET msec == RDiv(usec, RInt(1000))
             IN  IF RLess(msec, RInt(1000)) THEN <<msec, "msec">>
                 ELSE <<RDiv(timing, RInt(loops)), "sec">>

format_timing(timing, loops) ==
    LET usec == RDiv(RMul(timing, RInt(1000000)), RInt(loops))
    IN  IF RLess(usec, RInt(1000)) THEN <<usec, "usec">>
        ELSE LET msec == RDiv(usec, RInt(1000))
             IN  IF RLess(msec, RInt(1000)) THEN <<msec, "msec">>
                 ELSE <<timing, "sec">>

DefaultLoops == 1

-----------------------------------------------------------------------------
(* class Timer *)

TimerIds == {"t1", "t2"}

\* the msg argument each instance is constructed with
Label(t) == IF t = "t1" THEN "" ELSE "block"

DefaultPrecision == 3

\* time elapsed in a block before it is left, in microseconds: the three
\* values make format_timing answer in usec, msec and sec
Delays == {5, 2500, 1500000}

\* what a with-block may raise
Raisable == {"None", "ValueError"}

\* self.timer(): timeit.default_timer, in seconds
timer(c) == Rat(c, 1000000)

\* Timer.__init__
TimerInit(msg, log_func, disable_gc, precision) ==
    [log_func |-> log_func,
     msg |-> IF msg # "" THEN <<"Executed '", msg, "' in:", " %.*g %s">>
             ELSE <<"Executed in:", " %.*g %s">>,
     disable_gc |-> disable_gc,
     precision |-> precision,
     start |-> None, end |-> None, interval |-> None,
     gc_state |-> None, seconds |-> None, unit |-> None]

\* Timer.__enter__: the collector's flag after "if self.disable_gc: ... gc.disable()"
EnterGcKeep(self, g) == g

EnterGc(self, g) == IF self.disable_gc THEN FALSE ELSE g

\* Timer.__enter__: the attributes after the call
EnterSelf(self, g, c) ==
    [self EXCEPT !.gc_state = IF self.disable_gc THEN Some(g) ELSE @,
                 !.start = Some(timer(c))]

\* Timer.__exit__: "if self.disable_gc and self.gc_state"
ExitRestores(self) == self.disable_gc /\ Val(self.gc_state)

\* Timer.__exit__: the collector's flag after "gc.enable()" under that condition
ExitGcAlways(self, g) == IF self.disable_gc THEN TRUE ELSE g

ExitGc(self, g) == IF ExitRestores(self) THEN TRUE ELSE g

\* Timer.__exit__: the attributes after the call
ExitSelf(self, c) ==
    LET end == timer(c)
        seconds == RSub(end, Val(self.start))
        ft == format_timing(seconds, DefaultLoops)
    IN  [self EXCEPT !.end = Some(end), !.seconds = Some(seconds),
                     !.interval = Some(ft[1]), !.unit = Some(ft[2])]

\* Timer.__exit__: the calls of self.log_func (a sink that returns normally)
SinkReport(self) ==
    IF self.log_func
    THEN << <<self.msg, self.precision, Val(self.interval), Val(self.unit)>> >>
    ELSE << >>

\* Timer.__exit__: the lines printed, msg % (precision, interval, unit)
PrintReportAlways(self) ==
    << [template |-> self.msg, precision |-> self.precision,
        value |-> Val(self.interval), unit |-> Val(self.unit)] >>

PrintReport(self) ==
    IF self.log_func THEN << >>
    ELSE << [template |-> self.msg, precision |-> self.precision,
             value |-> Val(self.interval), unit |-> Val(self.unit)] >>

\* Timer.__exit__ has no return statement: it returns None, which is false
ExitReturnTrue == TRUE

ExitReturn == FALSE

\* with t: ... entering the block calls t.__enter__()
Enter(t) ==
    /\ pc = "idle"
    /\ Len(regions) < MaxRegions
    /\ gc' = EnterGc(timers[t], gc)
    /\ timers' = [timers EXCEPT ![t] = EnterSelf(@, gc, clock)]
    /\ gcUsers' = IF timers[t].disable_gc THEN gcUsers \cup {t} ELSE gcUsers
    /\ stack' = Append(stack, Len(regions) + 1)
    /\ regions' = Append(
          [k \in 1..Len(regions) |->
              IF regions[k].open /\ regions[k].t = t
              THEN [regions[k] EXCEPT !.reentered = TRUE] ELSE regions[k]],
          [t |-> t, open |-> TRUE, pre |-> gc, post |-> gc, reentered |-> FALSE,
           nested |-> FALSE, exits |-> 0, raised |-> "None", propagated |-> "None",
           start |-> None, end |-> None])
    /\ UNCHANGED <<clock, exited, sinkCalls, stdout, autoVars, fmtVars>>

\* leaving the innermost block, normally (exc = "None") or by raising exc, after
\* d microseconds: the with-statement calls __exit__ and re-raises exc unless
\* __exit__ returned a true value
Exit(exc, d) ==
    /\ pc = "idle"
    /\ stack # << >>
    /\ LET rid == stack[Len(stack)]
           t == regions[rid].t
           self == ExitSelf(timers[t], clock + d)
       IN  /\ clock' = clock + d
           /\ gc' = ExitGc(timers[t], gc)
           /\ gcUsers' = IF ExitRestores(timers[t]) THEN gcUsers \cup {t} ELSE gcUsers
           /\ timers' = [timers EXCEPT ![t] = self]
           /\ sinkCalls' = sinkCalls \o SinkReport(self)
           /\ stdout' = stdout \o PrintReport(self)
           /\ stack' = SubSeq(stack, 1, Len(stack) - 1)
           /\ exited' = Append(exited, rid)
           /\ regions' = [k \in 1..Len(regions) |->
                 IF k = rid
                 THEN [regions[k] EXCEPT
                          !.open = FALSE, !.post = gc', !.exits = @ + 1,
                          !.raised = exc,
                          !.start = timers[t].start, !.end = Some(timer(clock')),
                          !.propagated = IF exc # "None" /\ ~ExitReturn
                                         THEN exc ELSE "None"]
                 ELSE IF regions[k].open
                      THEN [regions[k] EXCEPT !.nested = TRUE] ELSE regions[k]]
    /\ UNCHANGED <<autoVars, fmtVars>>

AutoIdle ==
    /\ pc = "idle" /\ repeat = 0 /\ verbose = FALSE /\ i = 0
    /\ number_of_loops = 0 /\ execution_time = None /\ r = << >>
    /\ ret = None /\ raised = "None" /\ diag = 0 /\ out = << >>
    /\ probes = << >> /\ trials = << >> /\ failure = "None"

FmtIdle == fmtIn = None /\ fmtOut = None

Init ==
    /\ gc \in BOOLEAN
    /\ clock = 0
    /\ \E lf \in [TimerIds -> BOOLEAN], dg \in [TimerIds -> BOOLEAN] :
          timers = [t \in TimerIds |->
                       TimerInit(Label(t), lf[t], dg[t], DefaultPrecision)]
    /\ stack = << >>
    /\ regions = << >>
    /\ exited = << >>
    /\ sinkCalls = << >>
    /\ stdout = << >>
    /\ gcUsers = {}
    /\ AutoIdle
    /\ FmtIdle

Next ==
    \/ \E t \in TimerIds : Enter(t)
    \/ \E exc \in Raisable, d \in Delays : Exit(exc, d)

Spec == Init /\ [][Next]_vars

-----------------------------------------------------------------------------
(* class AutoTimer(timeit.Timer) *)

\* the precision argument of auto
AutoPrecision == 3

\* range(1, 10) ends with 9
LastExponent == 9

\* "if execution_time >= 0.2"
Threshold == Rat(2, 10)

\* total times self.timeit(number) may measure, in seconds: 0.15, 0.2, 2, 10
Times == {Rat(15, 100), Rat(2, 10), RInt(2), RInt(10)}

\* what the target may raise: a subclass of Exception, or one of BaseException only
Raises == {"ZeroDivisionError", "KeyboardInterrupt"}

\* the result of one call self.timeit(number): the total time, or an exception
Results == [exc : {"None"}, t : Times] \cup [exc : Raises, t : {RInt(0)}]

\* "except Exception": the exception classes the handlers of auto catch
CatchesNothing(exc) == FALSE

Catches(exc) == exc \in {"ZeroDivisionError"}

\* "if execution_time >= 0.2: break"
EnoughStrictly(t) == RLess(Threshold, t)

Enough(t) == ~RLess(t, Threshold)

\* min(r)
RECURSIVE max(_)
max(s) ==
    IF Len(s) = 1 THEN s[1]
    ELSE LET m == max(Tail(s)) IN IF RLess(m, s[1]) THEN s[1] ELSE m

RECURSIVE min(_)
min(s) ==
    IF Len(s) = 1 THEN s[1]
    ELSE LET m == min(Tail(s)) IN IF RLess(s[1], m) THEN s[1] ELSE m

\* the except clauses of auto: print_exc() and return 1, or the exception leaves auto
Handle(exc) ==
    /\ failure' = exc
    /\ pc' = "done"
    /\ IF Catches(exc)
       THEN diag' = diag + 1 /\ ret' = Some(RInt(1)) /\ raised' = raised
       ELSE diag' = diag /\ ret' = ret /\ raised' = exc

\* one iteration of "for i in range(1, 10)", res being what self.timeit gives
ProbeStep(res) ==
    /\ pc = "probe"
    /\ i < LastExponent
    /\ i' = i + 1
    /\ number_of_loops' = 10 ^ (i + 1)
    /\ probes' = Append(probes, [number |-> 10 ^ (i + 1), result |-> res])
    /\ IF res.exc # "None"
       THEN /\ Handle(res.exc)
            /\ UNCHANGED <<execution_time, out>>
       ELSE /\ execution_time' = Some(res.t)
            /\ out' = IF verbose
                      THEN Append(out, [kind |-> "probe", loops |-> 10 ^ (i + 1),
                                        precision |-> AutoPrecision,
                                        value |-> res.t, unit |-> "secs"])
                      ELSE out
            /\ pc' = IF Enough(res.t) \/ i + 1 = LastExponent THEN "repeat" ELSE "probe"
            /\ UNCHANGED <<ret, raised, diag, failure>>
    /\ UNCHANGED <<repeat, verbose, r, trials, timerVars, fmtVars>>

\* self.repeat(repeat, number_of_loops): one trial, res being what self.timeit gives
TrialStep(res) ==
    /\ pc = "repeat"
    /\ Len(r) < repeat
    /\ trials' = Append(trials, [number |-> number_of_loops, result |-> res])
    /\ IF res.exc # "None"
       THEN Handle(res.exc) /\ r' = r
       ELSE r' = Append(r, res.t) /\ UNCHANGED <<pc, ret, raised, diag, failure>>
    /\ UNCHANGED <<repeat, verbose, i, number_of_loops, execution_time, out, probes,
                   timerVars, fmtVars>>

\* self.repeat has returned r: best = min(r), the prints and "return best"
Report ==
    /\ pc = "repeat"
    /\ Len(r) >= repeat
    /\ pc' = "done"
    /\ IF r = << >>
       THEN raised' = "ValueError" /\ UNCHANGED <<ret, out>>
       ELSE LET best == min(r)
                ft == format_timing(best, number_of_loops)
            IN  /\ out' = out
                      \o (IF verbose
                          THEN << [kind |-> "raw", precision |-> AutoPrecision,
                                   values |-> r] >>
                          ELSE << >>)
                      \o << [kind |-> "summary", loops |-> number_of_loops,
                             repeat |-> repeat, precision |-> AutoPrecision,
                             value |-> ft[1], unit |-> ft[2]] >>
                /\ ret' = Some(best)
                /\ raised' = raised
    /\ UNCHANGED <<repeat, verbose, i, number_of_loops, execution_time, r, diag,
                   probes, trials, failure, timerVars, fmtVars>>

TimerIdle ==
    /\ gc = TRUE /\ clock = 0
    /\ timers = [t \in TimerIds |-> TimerInit(Label(t), FALSE, TRUE, DefaultPrecision)]
    /\ stack = << >> /\ regions = << >> /\ exited = << >>
    /\ sinkCalls = << >> /\ stdout = << >> /\ gcUsers = {}

InitAuto ==
    /\ pc = "probe"
    /\ repeat \in 0..MaxRepeat
    /\ verbose \in BOOLEAN
    /\ i = 0
    /\ number_of_loops = 0
    /\ execution_time = None
    /\ r = << >>
    /\ ret = None
    /\ raised = "None"
    /\ diag = 0
    /\ out = << >>
    /\ probes = << >>
    /\ trials = << >>
    /\ failure = "None"
    /\ TimerIdle
    /\ FmtIdle

NextAuto ==
    \/ \E res \in Results : ProbeStep(res)
    \/ \E res \in Results : TrialStep(res)
    \/ Report

SpecAuto == InitAuto /\ [][NextAuto]_vars

-----------------------------------------------------------------------------
(* Calls of format_timing on its own *)

\* loop counts
LoopCounts == {1, 2, 3, 7, 10, 1000}

\* per-loop times in microseconds, around the two unit boundaries
PerLoop == {0, 1, 999, 1000, 1001, 2500, 999999, 1000000, 1000001}

\* how far the total time is off a multiple of the loop count, in microseconds
Offsets == {-1, 0, 1}

InitFmt ==
    /\ \E n \in LoopCounts, u \in PerLoop, o \in Offsets :
          /\ u * n + o >= 0
          /\ fmtIn = Some([timing |-> Rat(u * n + o, 1000000), number_of_loops |-> n])
    /\ fmtOut = None
    /\ TimerIdle
    /\ AutoIdle

FormatCall ==
    /\ fmtIn # None
    /\ fmtOut = None
    /\ fmtOut' = Some(format_timing(Val(fmtIn).timing, Val(fmtIn).number_of_loops))
    /\ UNCHANGED <<fmtIn, timerVars, autoVars>>

NextFmt == FormatCall

SpecFmt == InitFmt /\ [][NextFmt]_vars

-----------------------------------------------------------------------------
(* Properties of Timer *)

Closed == {k \in 1..Len(regions) : ~regions[k].open}
Suspends(k) == timers[regions[k].t].disable_gc

\* C1, as stated: for every region of a Timer that suspends the collector,
\* the collector's enabled flag after __exit__ equals the flag before
\* __enter__, nested re-entry of the same instance included.
C1_Restored_AnyNesting ==
    \A k \in Closed : Suspends(k) => regions[k].post = regions[k].pre

\* C1, amended: for every region of a Timer that suspends the collector and
\* whose instance is not entered again while the region is open, the
\* collector's enabled flag after __exit__ equals the flag before __enter__,
\* whether the region ends normally or by raising.
C1_Restored_NotReentered ==
    \A k \in Closed :
        Suspends(k) /\ ~regions[k].reentered => regions[k].post = regions[k].pre

\* a region that found the collector enabled, had another region nested in
\* it, ended by raising and left the collector enabled again
C1_Witness ==
    \E k \in Closed :
        /\ Suspends(k) /\ ~regions[k].reentered /\ regions[k].nested
        /\ regions[k].pre /\ regions[k].post /\ regions[k].raised # "None"

\* C2: the exit bookkeeping of a region has run exactly once when the region
\* is left and not at all before (end recorded, interval computed, one
\* report), and the exception the region raised is the one the caller gets.
C2_ExitOnce_Propagates ==
    /\ \A k \in 1..Len(regions) :
          /\ regions[k].exits = IF regions[k].open THEN 0 ELSE 1
          /\ ~regions[k].open =>
                /\ regions[k].propagated = regions[k].raised
                /\ timers[regions[k].t].end # None
                /\ timers[regions[k].t].interval # None
    /\ Len(exited) = Cardinality(Closed)
    /\ Len(sinkCalls) + Len(stdout) = Len(exited)

\* a region left by an exception, which reached the caller
C2_Witness ==
    \E k \in Closed :
        regions[k].raised = "ValueError" /\ regions[k].propagated = "ValueError"

\* C9: every exit makes one report, to log_func when one was given and to
\* the default channel otherwise, never to both; the report carries the
\* template, the precision and the value and unit of
\* format_timing(end - start) with one loop, end and start being the clock
\* readings of that exit and of the instance's latest enter.
C9_OneReport_OneChannel ==
    LET n == Len(exited)
        ToSink(m) == timers[regions[exited[m]].t].log_func
        \* the position of exit m's report in its channel
        Pos(m) == Cardinality({j \in 1..m : ToSink(j) = ToSink(m)})
    IN  /\ Len(sinkCalls) = Cardinality({m \in 1..n : ToSink(m)})
        /\ Len(stdout) = Cardinality({m \in 1..n : ~ToSink(m)})
        /\ \A m \in 1..n :
              LET g == regions[exited[m]]
                  self == timers[g.t]
                  ft == format_timing(RSub(Val(g.end), Val(g.start)), 1)
              IN  IF ToSink(m)
                  THEN sinkCalls[Pos(m)] =
                          <<self.msg, self.precision, ft[1], ft[2]>>
                  ELSE stdout[Pos(m)] =
                          [template |-> self.msg, precision |-> self.precision,
                           value |-> ft[1], unit |-> ft[2]]

\* one report went to a sink and one to the default channel
C9_Witness ==
    /\ Len(sinkCalls) = 1 /\ Len(stdout) = 1
    /\ sinkCalls[1][4] = "msec" /\ stdout[1].unit = "sec"

\* C10: while a region of a Timer that suspends the collector is open, the
\* collector is disabled, also after a region nested in it was left; a Timer
\* that does not suspend the collector never calls the gc module.
C10_DisabledInside_UntouchedOtherwise ==
    /\ \A n \in 1..Len(stack) : Suspends(stack[n]) => ~gc
    /\ \A t \in gcUsers : timers[t].disable_gc

\* an open suspending region in which a region of a Timer that does not
\* suspend was entered and left, the collector having been enabled at first
C10_Witness ==
    \E n \in 1..Len(stack), k \in Closed :
        /\ Suspends(stack[n]) /\ regions[stack[n]].nested /\ regions[stack[n]].pre
        /\ ~Suspends(k) /\ k > stack[n]

-----------------------------------------------------------------------------
(* Properties of AutoTimer.auto *)

Summaries == {k \in 1..Len(out) : out[k].kind = "summary"}
ProbeOk(k) == probes[k].result.exc = "None"
Below(t) == 10 * t.num < 2 * t.den
Under2(t) == t.num < 2 * t.den

\* the call that raised is the last execution of the target
FailedLast ==
    /\ pc = "done"
    /\ IF trials = << >>
       THEN /\ probes # << >>
            /\ ~ProbeOk(Len(probes))
            /\ \A k \in 1..(Len(probes) - 1) : ProbeOk(k)
       ELSE /\ \A k \in 1..Len(probes) : ProbeOk(k)
            /\ trials[Len(trials)].result.exc # "None"
            /\ \A k \in 1..(Len(trials) - 1) : trials[k].result.exc = "None"

AbortedWithSentinel ==
    /\ FailedLast
    /\ diag = 1
    /\ Summaries = {}
    /\ ret = Some(RInt(1))
    /\ raised = "None"

\* C3, as stated: whenever an execution of the target raises, in the probe
\* phase or in a trial, auto emits one diagnostic, executes the target no
\* further, prints no summary, returns 1 and raises nothing.
C3_AnyRaise_Sentinel == failure # "None" => AbortedWithSentinel

\* C3, amended: whenever an execution of the target raises an exception that
\* is an instance of Exception, in the probe phase or in a trial, auto emits
\* one diagnostic, executes the target no further, prints no summary, returns
\* 1 and raises nothing.
C3_ExceptionRaise_Sentinel ==
    failure \in {"ZeroDivisionError"} => AbortedWithSentinel

\* the second trial of the repeat phase raised and auto returned 1
C3_Witness ==
    /\ failure = "ZeroDivisionError" /\ Len(trials) = 2 /\ Len(probes) > 1
    /\ ret = Some(RInt(1)) /\ diag = 1

\* C4: the probes use 10^1, 10^2, ... in order; probing goes on exactly
\* while the measured total is below 0.2 s and the exponent is below 9; every
\* trial of the repeat phase uses the count of the last probe.
C4_ProbeSchedule ==
    LET n == Len(probes) IN
    /\ n <= 9
    /\ \A k \in 1..n : probes[k].number = 10 ^ k
    /\ \A k \in 1..(n - 1) : ProbeOk(k) /\ Below(probes[k].result.t)
    /\ pc = "probe" /\ n > 0 =>
          ProbeOk(n) /\ Below(probes[n].result.t) /\ n < 9
    /\ pc = "repeat" \/ trials # << >> =>
          /\ n > 0
          /\ ProbeOk(n)
          /\ ~Below(probes[n].result.t) \/ n = 9
    /\ Len(trials) <= repeat
    /\ \A k \in 1..Len(trials) : trials[k].number = probes[n].number

\* nine probes were made, none reached 0.2 s, and the trials ran 10^9 loops
C4_Witness ==
    /\ Len(probes) = 9 /\ ProbeOk(9) /\ Below(probes[9].result.t)
    /\ Len(trials) = 2 /\ trials[2].number = 1000000000

\* C5, as stated: on every run in which the target never raises, auto
\* returns the minimum of the repeat trial totals, unscaled, for every repeat.
C5_ReturnsMin_AnyRepeat ==
    pc = "done" /\ failure = "None" =>
        /\ raised = "None"
        /\ Len(r) = repeat
        /\ ret # None
        /\ \E k \in 1..Len(r) : Val(ret) = r[k]
        /\ \A k \in 1..Len(r) : ~RLess(r[k], Val(ret))

\* C5, amended: on every run with repeat >= 1 in which the target never
\* raises, auto returns the minimum of the repeat trial totals, unscaled.
C5_ReturnsMin_RepeatPositive ==
    pc = "done" /\ failure = "None" /\ repeat >= 1 =>
        /\ raised = "None"
        /\ Len(r) = repeat
        /\ ret # None
        /\ \E k \in 1..Len(r) : Val(ret) = r[k]
        /\ \A k \in 1..Len(r) : ~RLess(r[k], Val(ret))

\* the minimum was the second of the trials, and it is not the printed value
C5_Witness ==
    /\ pc = "done" /\ failure = "None" /\ Len(r) >= 2
    /\ RLess(r[2], r[1]) /\ ret = Some(r[2])
    /\ \E k \in Summaries : out[k].value # r[2]

\* the printed value in microseconds
InUsec(value, unit) ==
    CASE unit = "usec" -> value
      [] unit = "msec" -> RMul(value, RInt(1000))
      [] unit = "sec" -> RMul(value, RInt(1000000))

\* C7: on a successful run the summary line's value, in its unit, is the
\* best trial total divided by the number of loops.
C7_SummaryIsPerLoop ==
    pc = "done" /\ ret # None /\ failure = "None" =>
        \A k \in Summaries :
            InUsec(out[k].value, out[k].unit) =
                RDiv(RMul(Val(ret), RInt(1000000)), RInt(out[k].loops))

\* C8: once the probe phase has completed, the chosen count's probe total t
\* satisfies 0.2 <= t < 2.0.
C8_ProbeWindow ==
    pc = "repeat" => ~Below(Val(execution_time)) /\ Under2(Val(execution_time))

-----------------------------------------------------------------------------
(* Properties of format_timing *)

\* the timing of the call in whole microseconds
Micros == Val(fmtIn).timing.num * (1000000 \div Val(fmtIn).timing.den)

\* C6: for a duration d >= 0 and a loop count n >= 1, format_timing gives
\* (d*1e6/n, "usec") iff d*1e6/n < 1000, (d*1e3/n, "msec") iff
\* 1000 <= d*1e6/n < 1e6, and (d, "sec") otherwise; it gives a result for
\* every such input and leaves the rest of the state as it was.
C6_FormatTiming ==
    fmtOut # None =>
        LET n == Val(fmtIn).number_of_loops
            value == Val(fmtOut)[1]
            unit == Val(fmtOut)[2]
        IN  /\ unit \in {"usec", "msec", "sec"}
            /\ unit = "usec" <=> Micros < 1000 * n
            /\ unit = "msec" <=> 1000 * n <= Micros /\ Micros < 1000000 * n
            /\ unit = "usec" => value = Rat(Micros, n)
            /\ unit = "msec" => value = Rat(Micros, 1000 * n)
            /\ unit = "sec" => value = Rat(Micros, 1000000)
            /\ TimerIdle
            /\ AutoIdle

\* a call with several loops that answered in seconds, with the total time
C6_Witness ==
    /\ fmtOut # None
    /\ Val(fmtIn).number_of_loops = 7
    /\ Val(fmtOut) = <<Val(fmtIn).timing, "sec">>
    /\ Micros = 7000000

====
